---- MODULE Spec2Model ----
(***************************************************************************)
(* Model of wpilib/ultrasonic.py: the Ultrasonic rangefinder class, its    *)
(* class-level registry (a WeakSet), the automatic-mode flag, the          *)
(* class-level Thread handle and the ultrasonicChecker round-robin task.   *)
(*                                                                         *)
(* Foreground callers execute the constructor, setAutomaticMode and ping   *)
(* one statement at a time, interleaved with each other and with every     *)
(* started ultrasonicChecker thread.                                       *)
(***************************************************************************)
EXTENDS Integers, FiniteSets, Sequences, TLC

\* ---- bounds of the model ----
MaxSensors == 2
NumCallers == 2
MaxThreads == 2
MaxEdges == 2
MaxOverlap == 1
MaxPeriod == 2
MaxUnit == 3

Sensors == 1..MaxSensors
Callers == 1..NumCallers
Threads == 1..MaxThreads

\* ---- program constants ----
kInches == 0
kMillimeters == 1
ValidEdges == 1
\* getRangeInches is modelled in thousandths of an inch for a period in
\* milliseconds, getRangeMM in tenths of a micrometre: 25.4 mm to the inch
\* is 254 tenths of a micrometre to the thousandth of an inch.
kSpeedOfSoundInchesPerSec == 1130 * 12
TenthMicronsPerMilliInch == 254

VARIABLES
  sensors,           \* Ultrasonic.sensors: the refs held by the WeakSet (its data)
  pending,           \* the WeakSet's pending removals (dead refs kept while iterating)
  obj,               \* per sensor object: "unborn", "init", "live", "released", "dead"
  counter,           \* per sensor: edges counted by self.counter since its last reset
  enabled,           \* per sensor: self.enabled
  automaticEnabled,  \* Ultrasonic.automaticEnabled
  thread,            \* Ultrasonic._thread: 0 is None, else a Thread object
  tstate,            \* per Thread object: "unused", "new", "alive", "done", "failed"
  tpc,               \* per ultrasonicChecker thread: the statement it is at
  tit,               \* per thread: the iterator of its `for u in Ultrasonic.sensors`
  count,             \* per thread: the local `count`
  tu,                \* per thread: the local `u` (0 is unbound)
  settling,          \* per thread: it emitted a pulse and its Timer.delay(.1) is not over
  pc,                \* per foreground caller: the statement it is at
  self,              \* per caller: the sensor the call is made on
  enabling,          \* per caller: the argument of setAutomaticMode
  op,                \* per caller: the method it was called with, "" when idle
  cit,               \* per caller: the iterator of its `for u in Ultrasonic.sensors`
  cu,                \* per caller: the local `u` of setAutomaticMode (0 is unbound)
  exc,               \* per caller: the exception its call ended with, "" if none
  tooClose,          \* a scheduler emitted a pulse within the settle wait of another pulse
  aliveAtCall,       \* per caller: the threads that were alive when its call began
  dirty,             \* per caller: sensors registered at call begin, not yet reset by it
  grew,              \* per thread: a sensor was registered while its current pass iterated
  needPulse,         \* sensors registered at the last enable and not pulsed since,
                     \* emptied when the mode is switched off or the registry grows
  overlaps,          \* calls begun so far while another call was in progress
  phase,             \* 0; 1 once an enable has started a scheduler; 2 once a disable
                     \* has returned after that; 2 + c while caller c's next enable runs
  offSteps,          \* per thread: the sensor steps (lines 84-89) it has made while
                     \* the automatic flag was false
  units,             \* per sensor: self.units
  period,            \* per sensor: self.counter.getPeriod(), in milliseconds
  last               \* the last call of a reading or units method: its name, sensor,
                     \* argument, returned value and exception

regVars == <<sensors, pending, obj>>
sensorVars == <<counter, enabled>>
modeVars == <<automaticEnabled, thread, tstate>>
thrVars == <<tpc, tit, count, tu, settling>>
callVars == <<pc, self, enabling, op, cit, cu, exc>>
\* The history that a step of ultrasonicChecker outside lines 84-89 leaves alone.
passVars == <<tooClose, aliveAtCall, dirty, grew, needPulse, overlaps, phase>>
histVars ==
  <<tooClose, aliveAtCall, dirty, grew, needPulse, overlaps, phase, offSteps>>
readVars == <<units, period, last>>
modelVars == <<regVars, sensorVars, modeVars, thrVars, callVars, histVars>>
vars == <<modelVars, readVars>>

\* ---- helpers ----
NoIter == [active |-> FALSE, todo |-> {}, used |-> 0]

Alive == {t \in Threads : tstate[t] = "alive"}

is_alive(t) == t # 0 /\ tstate[t] = "alive"

isAutomaticMode == automaticEnabled

isEnabled(s) == enabled[s]

\* isRangeValid with the test `> 0`: one edge would make a range valid.
isRangeValidAfterOneEdge(s) == counter[s] > 0

\* isRangeValid, lines 188-197.
isRangeValid(s) == counter[s] > ValidEdges

\* A weak reference resolves while the object has not been collected.
Resolves(s) == obj[s] # "dead"

\* The WeakSet's _iterating is non-empty.
AnyActive(ci, ti) ==
  \/ \E c \in Callers : ci[c].active
  \/ \E t \in Threads : ti[t].active

\* The iterator a `for u in Ultrasonic.sensors` works with: on its first
\* next() the generator enters the iteration guard and opens the iterator of
\* the underlying set, which remembers the set's size.
Cur(it) ==
  IF it.active THEN it
  ELSE [active |-> TRUE, todo |-> sensors, used |-> Cardinality(sensors)]

\* The set iterator raises RuntimeError when the set's size is not the one
\* it remembers.
SizeChanged(it) == Cardinality(sensors) # Cur(it).used

\* LiveTodo without the test of the weak reference: next() would yield the
\* refs of collected sensors too.
LiveTodoStale(it) == Cur(it).todo

\* The refs next() can still yield: dead refs are skipped inside next().
LiveTodo(it) == {x \in Cur(it).todo : Resolves(x)}

\* No reading or units method has been called.
NoCall == [name |-> "", s |-> 0, arg |-> 0, value |-> 0, exc |-> ""]

Init ==
  /\ units = [s \in Sensors |-> kInches]
  /\ period = [s \in Sensors |-> 0]
  /\ last = NoCall
  /\ sensors = {}
  /\ pending = {}
  /\ obj = [s \in Sensors |-> "unborn"]
  /\ counter = [s \in Sensors |-> 0]
  /\ enabled = [s \in Sensors |-> FALSE]
  /\ automaticEnabled = FALSE
  /\ thread = 0
  /\ tstate = [t \in Threads |-> "unused"]
  /\ tpc = [t \in Threads |-> "idle"]
  /\ tit = [t \in Threads |-> NoIter]
  /\ count = [t \in Threads |-> 0]
  /\ tu = [t \in Threads |-> 0]
  /\ settling = [t \in Threads |-> FALSE]
  /\ pc = [c \in Callers |-> "idle"]
  /\ self = [c \in Callers |-> 0]
  /\ enabling = [c \in Callers |-> FALSE]
  /\ op = [c \in Callers |-> ""]
  /\ cit = [c \in Callers |-> NoIter]
  /\ cu = [c \in Callers |-> 0]
  /\ exc = [c \in Callers |-> ""]
  /\ tooClose = FALSE
  /\ aliveAtCall = [c \in Callers |-> {}]
  /\ dirty = [c \in Callers |-> {}]
  /\ grew = [t \in Threads |-> FALSE]
  /\ needPulse = {}
  /\ overlaps = 0
  /\ phase = 0
  /\ offSteps = [t \in Threads |-> 0]

\* Some caller is inside a call.
Busy == \E c \in Callers : pc[c] # "idle"

\* ---- the application: sensor objects and the echo hardware ----

\* The echo line of a constructed sensor shows one more edge.
Edge(s) ==
  /\ obj[s] \in {"live", "released"}
  /\ counter[s] < MaxEdges
  /\ counter' = [counter EXCEPT ![s] = @ + 1]
  /\ UNCHANGED <<regVars, enabled, modeVars, thrVars, callVars, histVars>>

\* setEnabled(enable), lines 263-269.
setEnabled(s, b) ==
  /\ obj[s] = "live"
  /\ enabled[s] # b
  /\ enabled' = [enabled EXCEPT ![s] = b]
  /\ needPulse' = IF b THEN needPulse ELSE needPulse \ {s}
  /\ UNCHANGED <<overlaps, offSteps, tooClose, regVars, counter, modeVars,
                 thrVars, callVars, aliveAtCall, dirty, grew, phase>>

\* The application drops its last reference to a sensor it is not calling.
Release(s) ==
  /\ obj[s] = "live"
  /\ \A c \in Callers : self[c] # s
  /\ obj' = [obj EXCEPT ![s] = "released"]
  /\ UNCHANGED <<sensors, pending, sensorVars, modeVars, thrVars, callVars,
                 histVars>>

\* A strong reference to s is held by a frame: the loop variable `u` of a
\* running ultrasonicChecker or setAutomaticMode, or `self` of a call.
Held(s) ==
  \/ \E t \in Threads : tu[t] = s
  \/ \E c \in Callers : cu[c] = s \/ self[c] = s

\* WeakSet._remove without the deferral: the ref is discarded at once, also
\* under an open iteration.
RemoveAtOnce(s) ==
  /\ sensors' = sensors \ {s}
  /\ pending' = pending \ {s}

\* WeakSet._remove, the weak reference's callback: the removal is deferred
\* while the set is being iterated.
Remove(s) ==
  IF s \notin sensors THEN UNCHANGED <<sensors, pending>>
  ELSE IF AnyActive(cit, tit)
       THEN /\ pending' = pending \cup {s}
            /\ UNCHANGED sensors
       ELSE /\ sensors' = sensors \ {s}
            /\ UNCHANGED pending

\* An unreferenced sensor object is collected; its weak references die.
Collect(s) ==
  /\ obj[s] = "released"
  /\ ~Held(s)
  /\ obj' = [obj EXCEPT ![s] = "dead"]
  /\ Remove(s)
  /\ needPulse' = needPulse \ {s}
  /\ UNCHANGED <<overlaps, offSteps, tooClose, sensorVars, modeVars, thrVars,
                 callVars, aliveAtCall, dirty, grew, phase>>

\* ---- Ultrasonic.__init__, lines 93-133 ----

\* Lines 112-115: the call begins, the fields are set.
CtorCall(c, s) ==
  /\ pc[c] = "idle"
  /\ obj[s] = "unborn"
  /\ obj' = [obj EXCEPT ![s] = "init"]
  /\ enabled' = [enabled EXCEPT ![s] = TRUE]
  /\ pc' = [pc EXCEPT ![c] = "c_check"]
  /\ self' = [self EXCEPT ![c] = s]
  /\ op' = [op EXCEPT ![c] = "__init__"]
  /\ overlaps' = overlaps + (IF Busy THEN 1 ELSE 0)
  /\ UNCHANGED <<sensors, pending, counter, modeVars, thrVars, enabling, cit,
                 cu, exc, tooClose, aliveAtCall, dirty, grew, needPulse, phase,
                 offSteps>>

\* Line 117: the test of the class-level thread handle.
CtorCheck(c) ==
  /\ pc[c] = "c_check"
  /\ pc' = [pc EXCEPT ![c] =
              IF thread = 0 \/ ~is_alive(thread) THEN "c_assign" ELSE "c_add"]
  /\ UNCHANGED <<regVars, sensorVars, modeVars, thrVars, self, enabling, op,
                 cit, cu, exc, histVars>>

\* The Thread object line 118 creates: the object the handle gives up is
\* unreferenced unless it is running, and its slot is taken again.
Free(t) == t # thread /\ tstate[t] # "alive"

NewThread ==
  IF thread # 0 /\ tstate[thread] # "alive" THEN {thread}
  ELSE {t \in Threads : Free(t) /\ \A o \in Threads : Free(o) => t <= o}

\* Lines 118-120: a fresh, unstarted Thread replaces the handle.
CtorAssign(c) ==
  /\ pc[c] = "c_assign"
  /\ \E t \in NewThread :
       /\ thread' = t
       /\ tstate' = [tstate EXCEPT ![t] = "new"]
       /\ grew' = [grew EXCEPT ![t] = FALSE]
       /\ aliveAtCall' = [d \in Callers |-> aliveAtCall[d] \ {t}]
  /\ pc' = [pc EXCEPT ![c] = "c_add"]
  /\ UNCHANGED <<overlaps, offSteps, tooClose, regVars, sensorVars,
                 automaticEnabled, thrVars, self, enabling, op, cit, cu, exc,
                 dirty, needPulse, phase>>

\* WeakSet.add under iteration: pending removals are committed first; an
\* iterator that is open keeps its position in a table that has changed, so
\* it has lost the removed refs and may or may not come across the new one.
AfterAdd(it, s, sees) ==
  IF it.active
  THEN [it EXCEPT !.todo = (@ \ pending) \cup (IF sees THEN {s} ELSE {})]
  ELSE it

\* Lines 124-128: the counter is set up and reset, the sensor is registered.
CtorAdd(c) ==
  /\ pc[c] = "c_add"
  /\ LET s == self[c] IN
       /\ counter' = [counter EXCEPT ![s] = 0]
       /\ obj' = [obj EXCEPT ![s] = "live"]
       /\ sensors' = (sensors \ pending) \cup {s}
       /\ pending' = {}
       /\ \E wc \in SUBSET {d \in Callers : cit[d].active},
             wt \in SUBSET {t \in Threads : tit[t].active} :
            /\ cit' = [d \in Callers |-> AfterAdd(cit[d], s, d \in wc)]
            /\ tit' = [t \in Threads |-> AfterAdd(tit[t], s, t \in wt)]
       /\ grew' = [t \in Threads |-> grew[t] \/ tit[t].active]
  /\ needPulse' = {}
  /\ pc' = [pc EXCEPT ![c] = "ret"]
  /\ UNCHANGED <<enabled, modeVars, tpc, count, tu, settling, self, enabling,
                 op, cu, exc, tooClose, aliveAtCall, dirty, overlaps, phase,
                 offSteps>>

\* The call is over: its frame and what was recorded about it are dropped.
Return(c) ==
  /\ pc[c] \in {"ret", "raised"}
  /\ pc' = [pc EXCEPT ![c] = "idle"]
  /\ self' = [self EXCEPT ![c] = 0]
  /\ enabling' = [enabling EXCEPT ![c] = FALSE]
  /\ op' = [op EXCEPT ![c] = ""]
  /\ cu' = [cu EXCEPT ![c] = 0]
  /\ exc' = [exc EXCEPT ![c] = ""]
  /\ aliveAtCall' = [aliveAtCall EXCEPT ![c] = {}]
  /\ dirty' = [dirty EXCEPT ![c] = {}]
  /\ phase' = IF phase = 2 + c THEN (IF pc[c] = "ret" THEN 1 ELSE 0) ELSE phase
  /\ UNCHANGED <<overlaps, offSteps, tooClose, regVars, sensorVars, modeVars,
                 thrVars, cit, grew, needPulse>>

\* ---- setAutomaticMode, lines 135-172, and ping, lines 174-186 ----

\* The iteration guard is left: when no iteration of the set is left open
\* the pending removals are committed.
Commit(ci, ti) ==
  IF AnyActive(ci, ti) THEN UNCHANGED <<sensors, pending>>
  ELSE /\ sensors' = sensors \ pending
       /\ pending' = {}

\* The application calls setAutomaticMode(e) on a sensor it holds.
SetCall(c, s, e) ==
  /\ pc[c] = "idle"
  /\ obj[s] = "live"
  /\ pc' = [pc EXCEPT ![c] = "s_check"]
  /\ self' = [self EXCEPT ![c] = s]
  /\ enabling' = [enabling EXCEPT ![c] = e]
  /\ aliveAtCall' = [aliveAtCall EXCEPT ![c] = Alive]
  /\ phase' = IF e /\ phase = 2 THEN 2 + c ELSE phase
  /\ op' = [op EXCEPT ![c] = "setAutomaticMode"]
  /\ overlaps' = overlaps + (IF Busy THEN 1 ELSE 0)
  /\ UNCHANGED <<regVars, sensorVars, modeVars, thrVars, cit, cu, exc, tooClose,
                 dirty, grew, needPulse, offSteps>>

\* The application calls ping() on a sensor it holds; line 182 calls
\* setAutomaticMode(False).
PingCall(c, s) ==
  /\ pc[c] = "idle"
  /\ obj[s] = "live"
  /\ pc' = [pc EXCEPT ![c] = "s_check"]
  /\ self' = [self EXCEPT ![c] = s]
  /\ enabling' = [enabling EXCEPT ![c] = FALSE]
  /\ op' = [op EXCEPT ![c] = "ping"]
  /\ aliveAtCall' = [aliveAtCall EXCEPT ![c] = Alive]
  /\ overlaps' = overlaps + (IF Busy THEN 1 ELSE 0)
  /\ UNCHANGED <<regVars, sensorVars, modeVars, thrVars, cit, cu, exc, tooClose,
                 dirty, grew, needPulse, phase, offSteps>>

\* Lines 148-149: an enable in automatic mode returns at once.
NoChange(c) == enabling[c] /\ isAutomaticMode

SetCheck(c) ==
  /\ pc[c] = "s_check"
  /\ IF NoChange(c)
     THEN /\ pc' = [pc EXCEPT ![c] = "ret"]
     ELSE /\ pc' = [pc EXCEPT ![c] = "s_lock"]
  /\ UNCHANGED <<overlaps, offSteps, tooClose, regVars, sensorVars, modeVars,
                 thrVars, self, enabling, op, cit, cu, exc, aliveAtCall, dirty,
                 grew, needPulse, phase>>

\* Lines 150-151: the flag is written under the lock.
SetLock(c) ==
  /\ pc[c] = "s_lock"
  /\ automaticEnabled' = enabling[c]
  /\ pc' = [pc EXCEPT ![c] = IF enabling[c] THEN "s_iter" ELSE "s_poll"]
  /\ dirty' = [dirty EXCEPT ![c] = {x \in sensors : Resolves(x)}]
  /\ needPulse' = IF enabling[c]
                  THEN {x \in sensors : Resolves(x) /\ isEnabled(x)}
                  ELSE {}
  /\ offSteps' = IF enabling[c] THEN [t \in Threads |-> 0] ELSE offSteps
  /\ UNCHANGED <<overlaps, tooClose, regVars, sensorVars, thread, tstate,
                 thrVars, self, enabling, op, cit, cu, exc, aliveAtCall, grew,
                 phase>>

\* Where a call goes when its reset loop is over: line 160 of an enable, the
\* return of a disable, line 184 of a ping.
AfterLoop(c) ==
  IF enabling[c] THEN "s_start" ELSE IF op[c] = "ping" THEN "p_reset" ELSE "ret"

\* The wait loop of line 164 followed by a return: the reset loop of lines
\* 170-172 is left out.
SetPollSkipsReset(c) ==
  /\ pc[c] = "s_poll"
  /\ pc' = [pc EXCEPT ![c] = IF is_alive(thread) THEN "s_sleep" ELSE AfterLoop(c)]
  /\ UNCHANGED <<regVars, sensorVars, modeVars, thrVars, self, enabling, op,
                 cit, cu, exc, histVars>>

\* Line 164: the test of the wait loop.
SetPoll(c) ==
  /\ pc[c] = "s_poll"
  /\ pc' = [pc EXCEPT ![c] = IF is_alive(thread) THEN "s_sleep" ELSE "s_iter"]
  /\ UNCHANGED <<regVars, sensorVars, modeVars, thrVars, self, enabling, op,
                 cit, cu, exc, histVars>>

\* Line 167: Timer.delay(.15) is over.
SetSleep(c) ==
  /\ pc[c] = "s_sleep"
  /\ pc' = [pc EXCEPT ![c] = "s_poll"]
  /\ UNCHANGED <<regVars, sensorVars, modeVars, thrVars, self, enabling, op,
                 cit, cu, exc, histVars>>

\* Lines 156-158 and 170-172, one round of `for u in Ultrasonic.sensors`:
\* the next sensor is fetched and its counter is reset.
SetIter(c) ==
  /\ pc[c] = "s_iter"
  /\ IF SizeChanged(cit[c])
     THEN /\ cit' = [cit EXCEPT ![c] = NoIter]
          /\ Commit(cit', tit)
          /\ pc' = [pc EXCEPT ![c] = "raised"]
          /\ exc' = [exc EXCEPT ![c] = "Set changed size during iteration"]
          /\ UNCHANGED <<counter, cu, dirty, phase>>
     ELSE IF LiveTodo(cit[c]) = {}
     THEN /\ cit' = [cit EXCEPT ![c] = NoIter]
          /\ Commit(cit', tit)
          /\ pc' = [pc EXCEPT ![c] = AfterLoop(c)]
          /\ cu' = [cu EXCEPT ![c] = IF enabling[c] THEN @ ELSE 0]
          /\ phase' = IF ~enabling[c] /\ phase = 1 THEN 2 ELSE phase
          /\ UNCHANGED <<counter, exc, dirty>>
     ELSE /\ \E x \in LiveTodo(cit[c]) :
               /\ cit' = [cit EXCEPT ![c] = [Cur(@) EXCEPT !.todo = @ \ {x}]]
               /\ cu' = [cu EXCEPT ![c] = x]
               /\ counter' = [counter EXCEPT ![x] = 0]
               /\ dirty' = [dirty EXCEPT ![c] = @ \ {x}]
          /\ UNCHANGED <<sensors, pending, pc, exc, phase>>
  /\ UNCHANGED <<tooClose, obj, enabled, modeVars, thrVars, self, enabling, op,
                 aliveAtCall, grew, needPulse, overlaps, offSteps>>

\* Thread.start() succeeds on a Thread object that was never started.
CanStart(t) == tstate[t] = "new"

\* Line 160: Ultrasonic._thread.start().
SetStart(c) ==
  /\ pc[c] = "s_start"
  /\ IF CanStart(thread)
     THEN /\ tstate' = [tstate EXCEPT ![thread] = "alive"]
          /\ tpc' = [tpc EXCEPT ![thread] = "t_while"]
          /\ pc' = [pc EXCEPT ![c] = "ret"]
          /\ phase' = IF phase = 0 THEN 1 ELSE phase
          /\ UNCHANGED exc
     ELSE /\ pc' = [pc EXCEPT ![c] = "raised"]
          /\ exc' = [exc EXCEPT ![c] = "threads can only be started once"]
          /\ UNCHANGED <<tstate, tpc, phase>>
  /\ cu' = [cu EXCEPT ![c] = 0]
  /\ UNCHANGED <<overlaps, offSteps, tooClose, regVars, sensorVars,
                 automaticEnabled, thread, tit, count, tu, settling, self,
                 enabling, op, cit, aliveAtCall, dirty, grew, needPulse>>

\* Line 184: ping resets its own counter.
PingReset(c) ==
  /\ pc[c] = "p_reset"
  /\ counter' = [counter EXCEPT ![self[c]] = 0]
  /\ pc' = [pc EXCEPT ![c] = "p_pulse"]
  /\ UNCHANGED <<regVars, enabled, modeVars, thrVars, self, enabling, op, cit,
                 cu, exc, histVars>>

\* Line 186: the manual pulse is emitted and ping returns.
PingPulse(c) ==
  /\ pc[c] = "p_pulse"
  /\ pc' = [pc EXCEPT ![c] = "ret"]
  /\ UNCHANGED <<overlaps, offSteps, tooClose, regVars, sensorVars, modeVars,
                 thrVars, self, enabling, op, cit, cu, exc, aliveAtCall, dirty,
                 grew, needPulse, phase>>

\* ---- ultrasonicChecker, lines 66-91 ----

\* The thread's function returns or raises: its frame is gone.
Exit(t, how) ==
  /\ tstate' = [tstate EXCEPT ![t] = how]
  /\ tpc' = [tpc EXCEPT ![t] = "idle"]
  /\ tit' = [tit EXCEPT ![t] = NoIter]
  /\ Commit(cit, tit')
  /\ count' = [count EXCEPT ![t] = 0]
  /\ tu' = [tu EXCEPT ![t] = 0]
  /\ settling' = [settling EXCEPT ![t] = FALSE]
  /\ offSteps' = [offSteps EXCEPT ![t] = 0]

\* Lines 77-78: the test of the outer loop.
CheckerWhile(t) ==
  /\ tstate[t] = "alive"
  /\ tpc[t] = "t_while"
  /\ IF isAutomaticMode
     THEN /\ count' = [count EXCEPT ![t] = 0]
          /\ tpc' = [tpc EXCEPT ![t] = "t_for"]
          /\ grew' = [grew EXCEPT ![t] = FALSE]
          /\ UNCHANGED <<sensors, pending, tstate, tit, tu, settling, offSteps>>
     ELSE Exit(t, "done") /\ UNCHANGED grew
  /\ UNCHANGED <<obj, sensorVars, automaticEnabled, thread, callVars, tooClose,
                 aliveAtCall, dirty, needPulse, overlaps, phase>>

\* Line 79: the next sensor of the pass is fetched.
CheckerFor(t) ==
  /\ tstate[t] = "alive"
  /\ tpc[t] = "t_for"
  /\ IF SizeChanged(tit[t])
     THEN Exit(t, "failed")
     ELSE IF LiveTodo(tit[t]) = {}
     THEN /\ tit' = [tit EXCEPT ![t] = NoIter]
          /\ Commit(cit, tit')
          /\ tpc' = [tpc EXCEPT ![t] = "t_count"]
          /\ UNCHANGED <<tstate, count, tu, settling, offSteps>>
     ELSE /\ \E x \in LiveTodo(tit[t]) :
               /\ tit' = [tit EXCEPT ![t] = [Cur(@) EXCEPT !.todo = @ \ {x}]]
               /\ tu' = [tu EXCEPT ![t] = x]
          /\ tpc' = [tpc EXCEPT ![t] = "t_chk"]
          /\ UNCHANGED <<sensors, pending, tstate, count, settling, offSteps>>
  /\ UNCHANGED <<obj, sensorVars, automaticEnabled, thread, callVars, passVars>>

\* Lines 80-81 left out: the pass goes on to the sensor whatever the mode.
CheckerTestIgnoresFlag(t) ==
  /\ tstate[t] = "alive"
  /\ tpc[t] = "t_chk"
  /\ tpc' = [tpc EXCEPT ![t] = "t_pulse"]
  /\ UNCHANGED <<regVars, sensorVars, modeVars, tit, count, tu, settling,
                 callVars, histVars>>

\* Lines 80-81: the mode is tested before each sensor.
CheckerTest(t) ==
  /\ tstate[t] = "alive"
  /\ tpc[t] = "t_chk"
  /\ IF isAutomaticMode
     THEN /\ tpc' = [tpc EXCEPT ![t] = "t_pulse"]
          /\ UNCHANGED <<sensors, pending, tstate, tit, count, tu, settling,
                         offSteps>>
     ELSE Exit(t, "done")
  /\ UNCHANGED <<obj, sensorVars, automaticEnabled, thread, callVars, passVars>>

\* Some other thread is inside the settle wait that follows its pulse.
OtherSettling(t) == \E o \in Threads \ {t} : settling[o]

\* Lines 84-89 with the count and the settle wait inside the test of line
\* 85: a disabled sensor is neither counted nor waited for.
CheckerPulseSkipsDisabled(t) ==
  /\ tstate[t] = "alive"
  /\ tpc[t] = "t_pulse"
  /\ IF isEnabled(tu[t])
     THEN /\ count' = [count EXCEPT ![t] = @ + 1]
          /\ settling' = [settling EXCEPT ![t] = TRUE]
          /\ tooClose' = (tooClose \/ OtherSettling(t))
          /\ needPulse' = needPulse \ {tu[t]}
          /\ tpc' = [tpc EXCEPT ![t] = "t_delay"]
     ELSE /\ tpc' = [tpc EXCEPT ![t] = "t_for"]
          /\ UNCHANGED <<count, settling, tooClose, needPulse>>
  /\ offSteps' = IF isAutomaticMode THEN offSteps
                 ELSE [offSteps EXCEPT ![t] = IF @ < 2 THEN @ + 1 ELSE @]
  /\ UNCHANGED <<overlaps, regVars, sensorVars, modeVars, tit, tu, callVars,
                 aliveAtCall, dirty, grew, phase>>

\* Lines 84-89: the sensor is counted, pinged if it is enabled, and the
\* settle wait begins.
CheckerPulse(t) ==
  /\ tstate[t] = "alive"
  /\ tpc[t] = "t_pulse"
  /\ count' = [count EXCEPT ![t] = @ + 1]
  /\ IF isEnabled(tu[t])
     THEN /\ settling' = [settling EXCEPT ![t] = TRUE]
          /\ tooClose' = (tooClose \/ OtherSettling(t))
          /\ needPulse' = needPulse \ {tu[t]}
     ELSE UNCHANGED <<settling, tooClose, needPulse>>
  /\ tpc' = [tpc EXCEPT ![t] = "t_delay"]
  /\ offSteps' = IF isAutomaticMode THEN offSteps
                 ELSE [offSteps EXCEPT ![t] = IF @ < 2 THEN @ + 1 ELSE @]
  /\ UNCHANGED <<overlaps, regVars, sensorVars, modeVars, tit, tu, callVars,
                 aliveAtCall, dirty, grew, phase>>

\* Line 89: Timer.delay(.1) is over, a full settle interval has passed.
CheckerDelay(t) ==
  /\ tstate[t] = "alive"
  /\ tpc[t] = "t_delay"
  /\ settling' = [settling EXCEPT ![t] = FALSE]
  /\ tpc' = [tpc EXCEPT ![t] = "t_for"]
  /\ UNCHANGED <<regVars, sensorVars, modeVars, tit, count, tu, callVars,
                 histVars>>

\* Lines 90-91 left out: the outer loop goes on after every pass.
CheckerCountLoops(t) ==
  /\ tstate[t] = "alive"
  /\ tpc[t] = "t_count"
  /\ tpc' = [tpc EXCEPT ![t] = "t_while"]
  /\ UNCHANGED <<regVars, sensorVars, modeVars, tit, count, tu, settling,
                 callVars, histVars>>

\* Lines 90-91: a pass that counted no sensor ends the task.
CheckerCount(t) ==
  /\ tstate[t] = "alive"
  /\ tpc[t] = "t_count"
  /\ IF count[t] = 0
     THEN Exit(t, "done")
     ELSE /\ tpc' = [tpc EXCEPT ![t] = "t_while"]
          /\ UNCHANGED <<sensors, pending, tstate, tit, count, tu, settling,
                         offSteps>>
  /\ UNCHANGED <<obj, sensorVars, automaticEnabled, thread, callVars, passVars>>

\* A call that has ended is in "ret" or "raised" so that its outcome can be
\* seen; returning is one with the call's last statement, nothing comes between.
Returning == \E c \in Callers : pc[c] \in {"ret", "raised"}

\* Callers are anonymous and an idle caller holds nothing: the next call is
\* taken by the first idle one. Sensor objects are named in the order of
\* their construction.
FirstIdle(c) == pc[c] = "idle" /\ \A d \in Callers : pc[d] = "idle" => c <= d

NextUnborn(s) == obj[s] = "unborn" /\ \A x \in Sensors : obj[x] = "unborn" => s <= x

\* The echo hardware and the brief calls of the application.
Environment ==
  \/ \E s \in Sensors : Edge(s)
  \/ \E s \in Sensors, b \in BOOLEAN : setEnabled(s, b)
  \/ \E s \in Sensors : Release(s)
  \/ \E s \in Sensors : Collect(s)

\* The application begins a call.
Call(c) ==
  \/ \E s \in Sensors : NextUnborn(s) /\ CtorCall(c, s)
  \/ \E s \in Sensors, e \in BOOLEAN : SetCall(c, s, e)
  \/ \E s \in Sensors : PingCall(c, s)

\* A caller executes the next statement of its call.
Statement(c) ==
  \/ CtorCheck(c)
  \/ CtorAssign(c)
  \/ CtorAdd(c)
  \/ SetCheck(c)
  \/ SetLock(c)
  \/ SetPoll(c)
  \/ SetSleep(c)
  \/ SetIter(c)
  \/ SetStart(c)
  \/ PingReset(c)
  \/ PingPulse(c)

\* A started ultrasonicChecker executes its next statement.
ultrasonicChecker(t) ==
  \/ CheckerWhile(t)
  \/ CheckerFor(t)
  \/ CheckerTest(t)
  \/ CheckerPulse(t)
  \/ CheckerDelay(t)
  \/ CheckerCount(t)

\* One application thread: its calls follow one another, and run beside the
\* schedulers it has started, the echo hardware and the collector.
Next ==
  \/ (\E c \in Callers : Return(c)) /\ UNCHANGED readVars
  \/ ~Returning /\ Environment /\ UNCHANGED readVars
  \/ ~Returning /\ UNCHANGED readVars
        /\ \E c \in Callers : FirstIdle(c) /\ ~Busy /\ Call(c)
  \/ ~Returning /\ UNCHANGED readVars /\ \E c \in Callers : Statement(c)
  \/ ~Returning /\ UNCHANGED readVars
        /\ \E t \in Threads : ultrasonicChecker(t)

Spec == Init /\ [][Next]_vars

\* Several application threads: up to MaxOverlap calls begin while another
\* call is in progress. The sensors stay referenced and their echo lines quiet.
ConcNext ==
  \/ (\E c \in Callers : Return(c)) /\ UNCHANGED readVars
  \/ ~Returning /\ UNCHANGED readVars
        /\ \E c \in Callers :
              FirstIdle(c) /\ (Busy => overlaps < MaxOverlap) /\ Call(c)
  \/ ~Returning /\ UNCHANGED readVars /\ \E c \in Callers : Statement(c)
  \/ ~Returning /\ UNCHANGED readVars
        /\ \E t \in Threads : ultrasonicChecker(t)

ConcSpec == Init /\ [][ConcNext]_vars

\* The same threads under a fair scheduler: a caller that can execute its
\* next statement, and a started ultrasonicChecker, is not delayed forever.
Fairness ==
  /\ \A c \in Callers : WF_modelVars(Return(c))
  /\ \A c \in Callers : WF_modelVars(~Returning /\ Statement(c))
  /\ \A t \in Threads : WF_modelVars(~Returning /\ ultrasonicChecker(t))

FairConcSpec == ConcSpec /\ Fairness

\* ---- the readings and the units of a sensor, lines 188-254 ----

\* The values a caller passes as units, and to the constructor (line 114
\* stores them unchecked).
UnitArgs == 0..MaxUnit

\* getRangeInches without the division of line 210: the round trip.
getRangeInchesRoundTrip(s) ==
  IF isRangeValid(s) THEN period[s] * kSpeedOfSoundInchesPerSec ELSE 0

\* getRangeInches, lines 199-211.
getRangeInches(s) ==
  IF isRangeValid(s) THEN (period[s] * kSpeedOfSoundInchesPerSec) \div 2 ELSE 0

\* getRangeMM, lines 213-221.
getRangeMM(s) == getRangeInches(s) * TenthMicronsPerMilliInch

\* pidGet, lines 223-234.
pidGet(s) ==
  IF units[s] = kInches THEN getRangeInches(s)
  ELSE IF units[s] = kMillimeters THEN getRangeMM(s)
  ELSE 0

\* getDistanceUnits, lines 248-254.
getDistanceUnits(s) == units[s]

Returned(n, s, a, v) == [name |-> n, s |-> s, arg |-> a, value |-> v, exc |-> ""]

Raised(n, s, a, e) == [name |-> n, s |-> s, arg |-> a, value |-> 0, exc |-> e]

\* setDistanceUnits without the test of line 243: any value is stored.
setDistanceUnitsUnchecked(s, u) ==
  /\ units' = [units EXCEPT ![s] = u]
  /\ last' = Returned("setDistanceUnits", s, u, 0)
  /\ UNCHANGED <<period, modelVars>>

\* setDistanceUnits, lines 236-246.
setDistanceUnits(s, u) ==
  /\ IF u \notin {kInches, kMillimeters}
     THEN /\ last' = Raised("setDistanceUnits", s, u, "ValueError")
          /\ UNCHANGED units
     ELSE /\ units' = [units EXCEPT ![s] = u]
          /\ last' = Returned("setDistanceUnits", s, u, 0)
  /\ UNCHANGED <<period, modelVars>>

\* A caller reads the range or the units of a sensor.
Read(s) ==
  /\ \E r \in {Returned("getRangeInches", s, 0, getRangeInches(s)),
               Returned("getRangeMM", s, 0, getRangeMM(s)),
               Returned("pidGet", s, 0, pidGet(s)),
               Returned("getDistanceUnits", s, 0, getDistanceUnits(s))} :
       last' = r
  /\ UNCHANGED <<units, period, modelVars>>

\* The sensors have been constructed, in manual mode; one of them was given
\* any units, and its counter holds any number of edges and any period.
ReadInit ==
  /\ \E s \in Sensors, u \in UnitArgs, e \in 0..MaxEdges, p \in 0..MaxPeriod :
       /\ units = [x \in Sensors |-> IF x = s THEN u ELSE kInches]
       /\ counter = [x \in Sensors |-> IF x = s THEN e ELSE 0]
       /\ period = [x \in Sensors |-> IF x = s THEN p ELSE 0]
  /\ last = NoCall
  /\ sensors = Sensors
  /\ pending = {}
  /\ obj = [s \in Sensors |-> "live"]
  /\ enabled = [s \in Sensors |-> TRUE]
  /\ automaticEnabled = FALSE
  /\ thread = 1
  /\ tstate = [t \in Threads |-> IF t = 1 THEN "new" ELSE "unused"]
  /\ tpc = [t \in Threads |-> "idle"]
  /\ tit = [t \in Threads |-> NoIter]
  /\ count = [t \in Threads |-> 0]
  /\ tu = [t \in Threads |-> 0]
  /\ settling = [t \in Threads |-> FALSE]
  /\ pc = [c \in Callers |-> "idle"]
  /\ self = [c \in Callers |-> 0]
  /\ enabling = [c \in Callers |-> FALSE]
  /\ op = [c \in Callers |-> ""]
  /\ cit = [c \in Callers |-> NoIter]
  /\ cu = [c \in Callers |-> 0]
  /\ exc = [c \in Callers |-> ""]
  /\ tooClose = FALSE
  /\ aliveAtCall = [c \in Callers |-> {}]
  /\ dirty = [c \in Callers |-> {}]
  /\ grew = [t \in Threads |-> FALSE]
  /\ needPulse = {}
  /\ overlaps = 0
  /\ phase = 0
  /\ offSteps = [t \in Threads |-> 0]

ReadNext ==
  \/ \E s \in Sensors, u \in UnitArgs : setDistanceUnits(s, u)
  \/ \E s \in Sensors : Read(s)

ReadSpec == ReadInit /\ [][ReadNext]_vars

\* ---- sanity ----
TypeOK ==
  /\ sensors \subseteq Sensors
  /\ pending \subseteq sensors
  /\ thread \in 0..MaxThreads
  /\ \A t \in Threads : tu[t] \in 0..MaxSensors /\ count[t] \in 0..MaxSensors
  /\ \A t \in Threads : settling[t] => tpc[t] = "t_delay"
  /\ \A s \in Sensors : counter[s] \in 0..MaxEdges
  /\ (~AnyActive(cit, tit)) => pending = {}
  /\ \A s \in pending : obj[s] = "dead"
  /\ \A s \in Sensors : obj[s] = "dead" /\ s \in sensors => s \in pending

\* ---- properties ----

IsDisable(c) == op[c] = "setAutomaticMode" /\ ~enabling[c]

IsEnable(c) == op[c] = "setAutomaticMode" /\ enabling[c]

\* The threads that were running when caller c's call began and still run.
StillRunning(c) == aliveAtCall[c] \cap Alive

\* C1: in every reachable state at most one ultrasonicChecker thread is
\* alive, whatever the interleaving of the callers.
C1_AtMostOneScheduler == Cardinality(Alive) <= 1

\* C2: when a call setAutomaticMode(False) has returned, no scheduler that
\* was running when the call began is still alive.
C2_DisableWaitsForScheduler ==
  \A c \in Callers : pc[c] = "ret" /\ IsDisable(c) => StillRunning(c) = {}

\* C3: after setAutomaticMode(True) started a scheduler and a later
\* setAutomaticMode(False) returned, the next setAutomaticMode(True) ends
\* without error and leaves exactly one scheduler thread alive.
C3_ReenableStartsOneScheduler ==
  \A c \in Callers :
    phase = 2 + c /\ pc[c] \in {"ret", "raised"}
      => pc[c] = "ret" /\ Cardinality(Alive) = 1

\* C4: no scheduler emits a pulse within the settle wait that follows the
\* pulse of another scheduler step.
C4_PulsesOneSettleApart == ~tooClose

\* C5: while automatic mode stays enabled and the registry is the one of the
\* enable, a sensor that still waits for its first pulse has a scheduler
\* running, or an enable call about to start one, to emit it.
C5_EverySensorGetsItsPulse ==
  needPulse # {} =>
    \/ Alive # {}
    \/ \E c \in Callers : IsEnable(c) /\ pc[c] \in {"s_lock", "s_iter", "s_start"}

\* C6: when ping() has emitted its manual pulse, every scheduler that was
\* running when ping() was called has terminated.
C6_PingStopsSchedulerFirst ==
  \A c \in Callers : pc[c] = "ret" /\ op[c] = "ping" => StillRunning(c) = {}

\* The sensors registered when caller c wrote the flag, still alive, whose
\* counter c has not reset.
Unreset(c) == {x \in dirty[c] : Resolves(x)}

\* C7: an enable made in manual mode has reset every live sensor's counter
\* when it starts the scheduler; a disable resets the counters only once the
\* schedulers that ran when it was called have terminated, and has reset
\* every live sensor's counter when it returns.
C7_ToggleResetsAllCounters ==
  \A c \in Callers :
    /\ pc[c] = "s_start" => Unreset(c) = {}
    /\ pc[c] = "ret" /\ IsDisable(c) => Unreset(c) = {}
    /\ pc[c] = "s_iter" /\ ~enabling[c] /\ cu[c] # 0 => StillRunning(c) = {}

\* What is left of C7 beside the order of the wait and the resets: the
\* toggles reset every live sensor's counter.
ToggleResetsAll ==
  \A c \in Callers :
    /\ pc[c] = "s_start" => Unreset(c) = {}
    /\ pc[c] \in {"ret", "p_reset", "p_pulse"} /\ ~enabling[c]
         /\ op[c] \in {"setAutomaticMode", "ping"} => Unreset(c) = {}

\* A step of caller c has just reset the counter of sensor s: lines 127, 158,
\* 172 and 184.
ResetStep(c, s) ==
  \/ pc[c] = "c_add" /\ pc'[c] = "ret" /\ s = self[c]
  \/ pc[c] = "p_reset" /\ pc'[c] = "p_pulse" /\ s = self[c]
  \/ pc[c] = "s_iter" /\ cit'[c].active /\ cit'[c] # cit[c] /\ s = cu'[c]

\* C8: isRangeValid() is false right after every reset of the sensor's
\* counter (construction, ping, mode transition), and it turns true exactly
\* when the counter records its second edge since that reset.
C8_RangeValidAfterTwoEdges ==
  [][\A s \in Sensors :
       /\ (\E c \in Callers : ResetStep(c, s)) => ~isRangeValid(s)'
       /\ ~isRangeValid(s) /\ isRangeValid(s)'
            => counter[s] = 1 /\ counter'[s] = 2]_vars

\* C8, its case: a reset loop has just reset one sensor's counter while
\* another sensor, with two edges recorded, still waits for its reset.
C8_Witness ==
  \E c \in Callers, x, y \in Sensors :
    /\ pc[c] = "s_iter" /\ cu[c] = x /\ counter[x] = 0
    /\ y \in cit[c].todo /\ isRangeValid(y)

\* An enable call is past the no-change test of line 148.
EnableInProgress(c) == IsEnable(c) /\ pc[c] \in {"s_lock", "s_iter", "s_start"}

\* C9: of two setAutomaticMode(True) calls, made one beside the other, only
\* one gets past the no-change test: the other is absorbed, resets no
\* counter and starts no thread.
C9_DoubleStartAbsorbed ==
  \A c, d \in Callers : c # d => ~(EnableInProgress(c) /\ EnableInProgress(d))

C11_EmptyPassTerminates ==
  [][\A t \in Threads :
       /\ tpc[t] = "t_for" /\ ~tit[t].active /\ tpc'[t] # "t_for"
            /\ {x \in sensors : Resolves(x)} = {}
            => tpc'[t] = "t_count" /\ count'[t] = 0
       /\ tpc[t] = "t_count" /\ count[t] = 0 /\ tpc'[t] # "t_count"
            => tstate'[t] = "done"]_vars

\* C11, its case: with automatic mode enabled, a running scheduler has ended
\* a pass that found no live sensor.
C11_Witness ==
  \E t \in Threads :
    /\ tstate[t] = "alive" /\ tpc[t] = "t_count" /\ count[t] = 0
    /\ automaticEnabled /\ {x \in sensors : Resolves(x)} = {}

C15_EnableAfterExitRestarts ==
  \A c \in Callers :
    /\ IsEnable(c) /\ pc[c] \in {"ret", "raised"}
    /\ aliveAtCall[c] = {}
    /\ \E t \in Threads : tstate[t] \in {"done", "failed"}
    => pc[c] = "ret" /\ Alive # {}

\* C16: a scheduler makes at most one sensor step (one pulse, one settle
\* wait) while the automatic flag is false, and the next test of the flag it
\* makes, between sensor steps or at the pass boundary, terminates it.
C16_CancellationBounded ==
  [][\A t \in Threads :
       /\ offSteps'[t] <= 1
       /\ ~automaticEnabled /\ tpc[t] \in {"t_while", "t_chk"}
            /\ tpc'[t] # tpc[t] => tstate'[t] = "done"]_vars

\* C16, its case: the flag was set false during a sensor step, which the
\* scheduler has completed.
C16_Witness ==
  \E t \in Threads :
    tstate[t] = "alive" /\ offSteps[t] = 1 /\ tpc[t] = "t_delay" /\ settling[t]

\* C17: under a fair scheduler every setAutomaticMode(False) call that has
\* begun comes to its end.
C17_DisableEventuallyReturns ==
  \A c \in Callers :
    (IsDisable(c) /\ pc[c] = "s_check") ~> (pc[c] \in {"ret", "raised"})

\* C18: a sensor step emits its pulse exactly when the sensor's enabled flag
\* is true at the step; enabled or not, the sensor is counted and the settle
\* wait is made, and a scheduler ends at a pass boundary only with a count
\* of 0, so a pass over disabled live sensors does not end it.
C18_DisabledVisitedNotPulsed ==
  [][\A t \in Threads :
       /\ tpc[t] = "t_pulse" /\ tpc'[t] # "t_pulse"
            => /\ tpc'[t] = "t_delay"
               /\ count'[t] = count[t] + 1
               /\ settling'[t] <=> enabled[tu[t]]
       /\ tpc[t] = "t_count" /\ tstate'[t] = "done" => count[t] = 0]_vars

\* C18, its case: a scheduler has ended a pass over a registry of disabled
\* sensors, has counted them all and goes on.
C18_Witness ==
  \E t \in Threads :
    /\ tstate[t] = "alive" /\ tpc[t] = "t_while" /\ sensors # {}
    /\ count[t] = Cardinality(sensors)
    /\ \A s \in sensors : ~enabled[s]

\* C19: when ping() has come to its own reset, and when it returns, it has
\* reset the counter of every live sensor that was registered when it was
\* called, so that a range is valid then only by edges recorded since.
C19_PingResetsEverySensor ==
  \A c \in Callers :
    op[c] = "ping" /\ pc[c] \in {"p_reset", "p_pulse", "ret"}
      => /\ Unreset(c) = {}
         /\ pc[c] # "p_reset" /\ isRangeValid(self[c]) => counter[self[c]] >= 2

\* C19, its case: a ping() made with no scheduler running has reset the
\* counter of another sensor than its own, whose range was valid.
C19_Witness ==
  \E c \in Callers, y \in Sensors :
    /\ op[c] = "ping" /\ pc[c] = "s_iter" /\ aliveAtCall[c] = {} /\ Alive = {}
    /\ cu[c] = y /\ y # self[c] /\ counter[y] = 0
    /\ self[c] \in cit[c].todo /\ isRangeValid(self[c])

\* C20: every alive scheduler thread is the one the class-level handle
\* Ultrasonic._thread refers to.
C20_HandleIsTheRunningThread == \A t \in Alive : thread = t

\* C12: setDistanceUnits(u) with u outside {0, 1} raises the invalid-argument
\* error and leaves the sensor's units, and every other field, as they
\* were; with u in {0, 1} it returns and the sensor's units are u.
C12_SetDistanceUnits ==
  [][last' # last /\ last'.name = "setDistanceUnits"
       => IF last'.arg \in {0, 1}
          THEN /\ last'.exc = ""
               /\ units' = [units EXCEPT ![last'.s] = last'.arg]
          ELSE /\ last'.exc = "ValueError"
               /\ UNCHANGED <<units, period, modelVars>>]_vars

\* C12, its case: a call with an invalid argument has raised on a sensor
\* configured for millimetres, which it still is.
C12_Witness ==
  /\ last.name = "setDistanceUnits" /\ last.arg \notin {0, 1}
  /\ last.exc = "ValueError" /\ units[last.s] = 1

\* C14: getRangeInches() returns 0 while fewer than 2 edges are recorded and
\* period * 1130 * 12 / 2 otherwise; getRangeMM() returns 25.4 times that.
C14_RangeFormulas ==
  LET inches(s) == IF counter[s] >= 2 THEN (period[s] * 1130 * 12) \div 2 ELSE 0
  IN /\ last.name = "getRangeInches" => last.value = inches(last.s)
     /\ last.name = "getRangeMM" => last.value = inches(last.s) * 254

\* C14, its case: getRangeMM() has returned the range of a sensor with two
\* edges recorded and a period that is not 0.
C14_Witness ==
  /\ last.name = "getRangeMM" /\ counter[last.s] >= 2 /\ period[last.s] > 0
  /\ last.value = period[last.s] * 6780 * 254

====
